---- MODULE Spec2Model ----
(***************************************************************************)
(* Staged document lifecycle of the clinic patient-records application:    *)
(* the edit page of one patient (edit buffer, baseline snapshot, pending   *)
(* operation log, save and discard flows), the cascading patient          *)
(* deletion driven by the delete dialog of the dashboard, the add-patient  *)
(* form and the upload endpoint.                                           *)
(*                                                                         *)
(* Indices are 1-based here where the TypeScript source is 0-based.        *)
(***************************************************************************)
EXTENDS Integers, Sequences, FiniteSets, TLC

\* ------------------------------------------------------------------ bounds
MaxRecords == 3
MaxLog == 2
MaxTs == 2
MaxEdits == 3

\* ------------------------------------------------------------- vocabulary
\* null, as a patient no session can hold.
NULL == [id |-> "null", name |-> "", hn |-> "", history |-> <<>>]
Names == {"Ann", ""}
NewUrls == {"d"}

Range(s) == {s[i] : i \in DOMAIN s}

\* A history record: ghost identity rid, timestamp t held either as a Date
\* object (kind "date") or as an ISO string (kind "iso"), the attachment
\* urls and one scalar field.
HistoryRecord(rid, t, kind, docs, note) ==
  [rid |-> rid, t |-> t, kind |-> kind, docs |-> docs, note |-> note]

StoredPatient(history) ==
  [id |-> "p1", name |-> "Ann", hn |-> "HN1", history |-> history]

\* What the persistence layer may hold when the session opens.
StoredPatients ==
  { StoredPatient(<<HistoryRecord(1, 2, "iso", <<"a", "b">>, "n0"),
                    HistoryRecord(2, 1, "iso", <<"c">>, "n0")>>),
    StoredPatient(<<HistoryRecord(1, 1, "iso", <<"a">>, "n0")>>) }

\* useState initial value of the buffer.
InitialPatient == [id |-> "", name |-> "", hn |-> "", history |-> <<>>]

HistoryRefs(h) == UNION {Range(h[i].docs) : i \in DOMAIN h}

\* ---------------------------------------------------------------- helpers
\* JSON.parse(JSON.stringify(p)): Date objects come back as ISO strings.
JsonCopy(p) ==
  [p EXCEPT !.history = [i \in DOMAIN @ |-> [@[i] EXCEPT !.kind = "iso"]]]

\* JSON.stringify(p), as the value it denotes: a Date prints as its ISO string.
Stringify(p) == JsonCopy(p)

\* The load effect's date processing: a string timestamp becomes a Date.
ProcessDates(h) ==
  [i \in DOMAIN h |-> IF h[i].kind = "iso" THEN [h[i] EXCEPT !.kind = "date"] ELSE h[i]]

\* Array.prototype.sort with comparator dateB - dateA: stable, descending.
InsertDesc(s, r) ==
  LET pos == Cardinality({i \in DOMAIN s : s[i].t >= r.t})
  IN SubSeq(s, 1, pos) \o <<r>> \o SubSeq(s, pos + 1, Len(s))

RECURSIVE SortDesc(_)
SortDesc(h) ==
  IF h = <<>> THEN <<>>
  ELSE InsertDesc(SortDesc(SubSeq(h, 1, Len(h) - 1)), h[Len(h)])

RemoveAt(s, i) == SubSeq(s, 1, i - 1) \o SubSeq(s, i + 1, Len(s))

\* Array.prototype.filter by position: the elements at the indices of keep,
\* in order.
SelectIdx(s, keep) ==
  LET F[i \in 0..Len(s)] ==
        IF i = 0 THEN <<>>
        ELSE IF i \in keep THEN Append(F[i - 1], s[i]) ELSE F[i - 1]
  IN F[Len(s)]

IndexOf(s, x) ==
  IF \E i \in DOMAIN s : s[i] = x
  THEN CHOOSE i \in DOMAIN s : s[i] = x /\ \A j \in 1..(i - 1) : s[j] # x
  ELSE 0

\* ------------------------------------------------------------------ state
VARIABLES
  patient,                 \* edit buffer
  originalPatient,         \* baseline snapshot, or NULL
  hasUnsavedChanges,
  isSaving,
  isRollbackInProgress,
  showDiscardConfirmation,
  navigated,               \* router.push("/dashboard") was called
  pendingOperations,       \* the document manager's log
  db,                      \* the persisted patient
  remote,                  \* urls of the objects in remote storage
  save,                    \* position and closure of handleSave
  discard,                 \* position and closure of confirmDiscard
  deleteCalls,             \* ghost: every remote delete issued in the session
  nextRid,                 \* ghost: identity of the next added record
  edits,                   \* ghost: user edits made so far
  dlg,                     \* the dashboard's delete dialog and its request
  addPage,                 \* the add-patient page: form, clinicId, handleSubmit
  upload                   \* the upload endpoint: one POST request

vars == <<patient, originalPatient, hasUnsavedChanges, isSaving,
          isRollbackInProgress, showDiscardConfirmation, navigated,
          pendingOperations, db, remote, save, discard, deleteCalls,
          nextRid, edits, dlg, addPage, upload>>

pageVars == <<patient, originalPatient, hasUnsavedChanges, isSaving,
              isRollbackInProgress, showDiscardConfirmation, navigated,
              pendingOperations, save, discard, deleteCalls, nextRid, edits,
              addPage, upload>>

\* ------------------------------------------------- document manager (hook)
\* A pending operation as the page reads it (type, recordIndex, url,
\* recordDocuments); rid is a ghost naming the record it was recorded on.
Operation(type, recordIndex, url, recordDocuments, rid) ==
  [type |-> type, recordIndex |-> recordIndex, url |-> url,
   recordDocuments |-> recordDocuments, rid |-> rid]

\* Mutant: a recording stacks on the entries already in the log.
SupersedeNone(log, recordIndex, url) == log

\* Recording over an existing entry for the same (recordIndex, ref) replaces it.
Supersede(log, recordIndex, url) ==
  SelectIdx(log, {i \in DOMAIN log : ~(log[i].type \in {"add", "remove"}
                                        /\ log[i].recordIndex = recordIndex
                                        /\ log[i].url = url)})

RecordAttach(log, recordIndex, url, rid) ==
  Append(Supersede(log, recordIndex, url),
         Operation("add", recordIndex, url, <<>>, rid))

RecordDetach(log, recordIndex, url, rid) ==
  Append(Supersede(log, recordIndex, url),
         Operation("remove", recordIndex, url, <<>>, rid))

RecordRecordDeletion(log, recordIndex, documentUrls, rid) ==
  Append(log, Operation("remove_record", recordIndex, "", documentUrls, rid))

isRecordMarkedForDeletion(log, index) ==
  \E i \in DOMAIN log : log[i].type = "remove_record" /\ log[i].recordIndex = index

\* The refs a commit deletes remotely for an entry, and those a rollback does.
CommitRefs(op) ==
  IF op.type = "remove" THEN {op.url}
  ELSE IF op.type = "remove_record" THEN Range(op.recordDocuments)
  ELSE {}

RollbackRefs(op) == IF op.type = "add" THEN {op.url} ELSE {}

Reverse(s) == [i \in DOMAIN s |-> s[Len(s) + 1 - i]]

\* The refs an entry is about.
Subjects(op) ==
  IF op.type = "remove_record" THEN Range(op.recordDocuments) ELSE {op.url}

\* Ghost record of remote deletes: the ref, the flow that issued the call and
\* the types of the entries of log that have the ref as their subject.
Calls(refs, by, log) ==
  {[url |-> u, by |-> by,
    pending |-> {log[i].type : i \in {k \in DOMAIN log : u \in Subjects(log[k])}}]
     : u \in refs}

\* Mutant: a failed remote delete ends the sweep.
NextEntryAbort(i, failing) == IF failing # {} THEN i + MaxLog + 1 ELSE i + 1

\* The entry a sweep turns to after entry i: the next one, whatever failed.
NextEntry(i, failing) == i + 1

\* ------------------------------------------------------------ page helpers
getActualRecordIndex(displayIndex) == displayIndex

onAddDocument(prev, recordIndex, url) ==
  LET actualIndex == getActualRecordIndex(recordIndex)
  IN IF actualIndex < 1 \/ actualIndex > Len(prev.history) THEN prev
     ELSE [prev EXCEPT !.history[actualIndex].docs = Append(@, url)]

\* Mutant: an invalid document index removes the record's last document.
onRemoveDocumentClamping(prev, recordIndex, documentIndex) ==
  LET actualIndex == getActualRecordIndex(recordIndex)
  IN IF actualIndex < 1 \/ actualIndex > Len(prev.history) THEN prev
     ELSE IF prev.history[actualIndex].docs = <<>> THEN prev
     ELSE [prev EXCEPT !.history[actualIndex].docs =
             RemoveAt(@, IF documentIndex \in DOMAIN @ THEN documentIndex
                         ELSE Len(@))]

onRemoveDocument(prev, recordIndex, documentIndex) ==
  LET actualIndex == getActualRecordIndex(recordIndex)
  IN IF actualIndex < 1 \/ actualIndex > Len(prev.history) THEN prev
     ELSE IF documentIndex < 1
             \/ documentIndex > Len(prev.history[actualIndex].docs) THEN prev
     ELSE [prev EXCEPT !.history[actualIndex].docs = RemoveAt(@, documentIndex)]

\* Mutant: the effect compares the buffer only.
UnsavedEffectBufferOnly(p, o, log, cur) ==
  IF o # NULL THEN Stringify(p) # Stringify(o) ELSE cur

\* The unsaved-changes effect; cur is the value it leaves when it does not set.
UnsavedEffect(p, o, log, cur) ==
  IF o # NULL THEN (Stringify(p) # Stringify(o)) \/ Len(log) > 0 ELSE cur

\* handleSave's patientToSave: the buffer without the records marked for deletion.
PatientToSave(p, log) ==
  LET h == p.history
  IN [p EXCEPT !.history =
        SelectIdx(h, {i \in DOMAIN h : ~isRecordMarkedForDeletion(log, i)})]

\* Mutant: confirmDiscard without the reset to the baseline.
DiscardResetSkipped(p, original) == p

\* What confirmDiscard puts back into the buffer after the rollback.
DiscardReset(p, original) ==
  IF original # NULL THEN JsonCopy(original) ELSE p

SaveIdle ==
  [pc |-> "idle", alert |-> "", rejected |-> FALSE, payload |-> NULL, buf |-> NULL,
   unsaved |-> FALSE, log |-> <<>>, pending |-> <<>>,
   sweep |-> <<>>, i |-> 0, deleted |-> {}, failed |-> {}, attempts |-> 0]

DiscardIdle ==
  [pc |-> "idle", original |-> NULL, pending |-> <<>>, sweep |-> <<>>, i |-> 0,
   deleted |-> {}, failed |-> {}, attempts |-> 0]

NoResult == [set |-> FALSE, success |-> FALSE, error |-> ""]

NoOutcome == [set |-> FALSE, filesDeleted |-> 0, filesNotDeleted |-> 0, success |-> FALSE]

\* retry and gone are ghosts: the coordinator's previous call for this
\* patient aborted on storage failures; the patient's refs that were no
\* longer in remote storage when this call started.
NoRequest ==
  [pc |-> "none", checked |-> FALSE, forceDelete |-> FALSE, patient |-> NULL,
   todo |-> {}, filesDeleted |-> 0, filesNotDeleted |-> 0,
   okAt |-> {}, failAt |-> {}, retry |-> FALSE, gone |-> {}]

\* Dashboard deleteDialog {isOpen, patient}, the dialog's own state (step,
\* forceDelete, deleteResult), the deletion request in flight and the last
\* DeletionOutcome the coordinator reported. inFlight is a ghost: the
\* onConfirm calls that have not settled.
DlgIdle ==
  [isOpen |-> FALSE, patient |-> NULL, step |-> "initial",
   forceDelete |-> FALSE, deleteResult |-> NoResult, req |-> NoRequest,
   outcome |-> NoOutcome, inFlight |-> 0]

\* The add-patient page when the router shows another page; when shown, its
\* clinicId search parameter, the name typed into the form, the position of
\* handleSubmit (form, adding, added), and as a ghost the alert last shown.
AddClosed ==
  [open |-> FALSE, clinicId |-> "", name |-> "", pc |-> "form", alert |-> ""]

\* The upload endpoint with no request: the form fields of the request
\* (file is "none", "text" for a field that is not a file, or "file"), the
\* position of POST, the status of its response (0: none yet), the filename
\* handed to the uploader, and as ghosts the calls made so far and whether
\* the outer catch block was taken.
UploadIdle ==
  [pc |-> "idle", file |-> "none", clinicId |-> "", originalFilename |-> "",
   status |-> 0, filename |-> "", calls |-> <<>>, thrown |-> FALSE]

\* The page shows its form (not the loading screen) and is still mounted.
Editing == originalPatient # NULL /\ ~navigated

\* -------------------------------------------------------------------- Init
Init ==
  /\ db \in StoredPatients
  /\ remote = HistoryRefs(db.history)
  /\ patient = InitialPatient
  /\ originalPatient = NULL
  /\ hasUnsavedChanges = FALSE
  /\ isSaving = FALSE
  /\ isRollbackInProgress = FALSE
  /\ showDiscardConfirmation = FALSE
  /\ navigated = FALSE
  /\ pendingOperations = <<>>
  /\ save = SaveIdle
  /\ discard = DiscardIdle
  /\ deleteCalls = {}
  /\ nextRid = 3
  /\ edits = 0
  /\ dlg = DlgIdle
  /\ addPage = AddClosed
  /\ upload = UploadIdle

\* The render that follows a handler: the unsaved-changes effect runs on the
\* new buffer, baseline and log; cur is what the handler itself set.
Rendered(cur) ==
  hasUnsavedChanges' =
    UnsavedEffect(patient', originalPatient', pendingOperations', cur)

\* --------------------------------------------------------------- load effect
\* patientFromStore arrives (fetchPatientById succeeded).
LoadedPatient(fromStore) ==
  [fromStore EXCEPT !.history = SortDesc(ProcessDates(fromStore.history))]

LoadEffect ==
  /\ originalPatient = NULL
  /\ ~navigated
  /\ ~addPage.open
  /\ patient' = LoadedPatient(db)
  /\ originalPatient' = JsonCopy(LoadedPatient(db))
  /\ UNCHANGED <<isSaving, isRollbackInProgress, showDiscardConfirmation,
                 navigated, pendingOperations, db, remote, save, discard,
                 deleteCalls, nextRid, edits, dlg, addPage, upload>>
  /\ Rendered(FALSE)

\* The load effect runs again during the session: state.patients
\* currentPatient or loading changed in the store. The effect sets the buffer
\* and the baseline and does not touch the document manager.
ReloadEffect ==
  /\ Editing
  /\ patient' = LoadedPatient(db)
  /\ originalPatient' = JsonCopy(LoadedPatient(db))
  /\ UNCHANGED <<isSaving, isRollbackInProgress, showDiscardConfirmation,
                 navigated, pendingOperations, db, remote, save, discard,
                 deleteCalls, nextRid, edits, dlg, addPage, upload>>
  /\ Rendered(FALSE)

\* ------------------------------------------------------------- buffer edits
CanEdit == Editing /\ edits < MaxEdits

EditFrame ==
  /\ edits' = edits + 1
  /\ UNCHANGED <<originalPatient, isSaving, isRollbackInProgress,
                 showDiscardConfirmation, navigated, db, save, discard,
                 deleteCalls, dlg, addPage, upload>>
  /\ Rendered(hasUnsavedChanges)

handleChange(value) ==
  /\ CanEdit
  /\ value # patient.name
  /\ patient' = [patient EXCEPT !.name = value]
  /\ UNCHANGED <<pendingOperations, remote, nextRid>>
  /\ EditFrame

handleAddRecord(t) ==
  /\ CanEdit
  /\ Len(patient.history) < MaxRecords
  /\ LET newRecord == HistoryRecord(nextRid, t, "date", <<>>, "n0")
     IN patient' = [patient EXCEPT !.history = SortDesc(Append(@, newRecord))]
  /\ nextRid' = nextRid + 1
  /\ UNCHANGED <<pendingOperations, remote>>
  /\ EditFrame

\* updatedRecord is the record the history section hands over: the record at
\* index with the fields of its form, here the note and the timestamp.
handleUpdateRecord(index, note, t) ==
  /\ CanEdit
  /\ index \in DOMAIN patient.history
  /\ LET updatedRecord == [patient.history[index] EXCEPT !.note = note, !.t = t]
     IN /\ updatedRecord # patient.history[index]
        /\ patient' = [patient EXCEPT !.history[index] = updatedRecord]
  /\ UNCHANGED <<pendingOperations, remote, nextRid>>
  /\ EditFrame

handleUpdateRecordDate(index, newDate) ==
  /\ CanEdit
  /\ index \in DOMAIN patient.history
  /\ LET updated == [patient.history EXCEPT ![index].t = newDate,
                                            ![index].kind = "date"]
     IN patient' = [patient EXCEPT !.history = SortDesc(updated)]
  /\ UNCHANGED <<pendingOperations, remote, nextRid>>
  /\ EditFrame

\* The file is uploaded first (remote gains url), then the page records it.
handleAddDocument(recordIndex, url) ==
  /\ CanEdit
  /\ Len(pendingOperations) < MaxLog
  /\ recordIndex \in DOMAIN patient.history
  /\ url \notin remote
  /\ remote' = remote \cup {url}
  /\ pendingOperations' =
       RecordAttach(pendingOperations, recordIndex, url,
                    patient.history[recordIndex].rid)
  /\ patient' = onAddDocument(patient, recordIndex, url)
  /\ UNCHANGED nextRid
  /\ EditFrame

handleRemoveDocument(recordIndex, documentIndex) ==
  /\ CanEdit
  /\ Len(pendingOperations) < MaxLog
  /\ recordIndex \in DOMAIN patient.history
  /\ documentIndex \in DOMAIN patient.history[recordIndex].docs
  /\ LET url == patient.history[recordIndex].docs[documentIndex]
     IN pendingOperations' =
          RecordDetach(pendingOperations, recordIndex, url,
                       patient.history[recordIndex].rid)
  /\ patient' = onRemoveDocument(patient, recordIndex, documentIndex)
  /\ UNCHANGED <<remote, nextRid>>
  /\ EditFrame

\* Mutant: the record's files are deleted from storage when it is marked.
handleRemoveRecordEager(index) ==
  /\ CanEdit
  /\ Len(pendingOperations) < MaxLog
  /\ index \in DOMAIN patient.history
  /\ LET recordToRemove == patient.history[index]
     IN /\ pendingOperations' =
             RecordRecordDeletion(pendingOperations, index, recordToRemove.docs,
                                  recordToRemove.rid)
        /\ remote' = remote \ Range(recordToRemove.docs)
        /\ deleteCalls' = deleteCalls \cup
             Calls(Range(recordToRemove.docs), "mark", pendingOperations')
  /\ edits' = edits + 1
  /\ UNCHANGED <<patient, nextRid, originalPatient, isSaving,
                 isRollbackInProgress, showDiscardConfirmation, navigated, db,
                 save, discard, dlg, addPage, upload>>
  /\ Rendered(hasUnsavedChanges)

\* Mutant: the record leaves the buffer when it is marked.
handleRemoveRecordSplicing(index) ==
  /\ CanEdit
  /\ Len(pendingOperations) < MaxLog
  /\ index \in DOMAIN patient.history
  /\ LET recordToRemove == patient.history[index]
     IN pendingOperations' =
          RecordRecordDeletion(pendingOperations, index, recordToRemove.docs,
                               recordToRemove.rid)
  /\ patient' = [patient EXCEPT !.history = RemoveAt(@, index)]
  /\ UNCHANGED <<remote, nextRid>>
  /\ EditFrame

handleRemoveRecord(index) ==
  /\ CanEdit
  /\ Len(pendingOperations) < MaxLog
  /\ index \in DOMAIN patient.history
  /\ LET recordToRemove == patient.history[index]
     IN pendingOperations' =
          RecordRecordDeletion(pendingOperations, index, recordToRemove.docs,
                               recordToRemove.rid)
  /\ UNCHANGED <<patient, remote, nextRid>>
  /\ EditFrame

\* Mutant: undo drops the entry and leaves the buffer as it is.
UndoBufferNone(p, op) == p

\* undo(operationIndex): drop one entry and reverse its buffer-visible effect.
UndoBuffer(p, op) ==
  IF op.type = "add"
  THEN onRemoveDocument(p, op.recordIndex,
         IF op.recordIndex \in DOMAIN p.history
         THEN IndexOf(p.history[op.recordIndex].docs, op.url) ELSE 0)
  ELSE IF op.type = "remove" THEN onAddDocument(p, op.recordIndex, op.url)
  ELSE p

undo(operationIndex) ==
  /\ CanEdit
  /\ operationIndex \in DOMAIN pendingOperations
  /\ patient' = UndoBuffer(patient, pendingOperations[operationIndex])
  /\ pendingOperations' = RemoveAt(pendingOperations, operationIndex)
  /\ UNCHANGED <<remote, nextRid>>
  /\ EditFrame

\* ---------------------------------------------------------------- save flow
\* Ghost: the records the log marks for deletion, by identity.
MarkedRids(log) ==
  {log[i].rid : i \in {k \in DOMAIN log : log[k].type = "remove_record"}}

\* Mutant: the commit sweeps the log newest entry first.
CommitSweepNewestFirst(log) == Reverse(log)

\* The order in which commitPendingOperations sweeps the log it finds after
\* the update: the order of recording.
CommitSweep(log) == log

\* Mutant: handleSave without its pre-flight validation.
SaveValidationNone(p) == ""

\* handleSave's pre-flight validation: the alert it shows, "" when it passes.
\* (clinicId is the search parameter the patient was fetched with.)
SaveValidation(p) ==
  IF p.id = "" THEN "Missing patient ID or clinic ID"
  ELSE IF p.name = "" \/ p.hn = ""
       THEN "Name and Hospital Number (HN) are required fields"
       ELSE ""

\* Save button: validation, then updatePatient is dispatched. save.alert is a
\* ghost: the alert of the last click.
handleSave ==
  /\ Editing
  /\ ~isSaving /\ hasUnsavedChanges /\ ~isRollbackInProgress
  /\ IF SaveValidation(patient) # ""
     THEN /\ save' = [save EXCEPT !.alert = SaveValidation(patient)]
          /\ UNCHANGED <<patient, originalPatient, hasUnsavedChanges, isSaving,
                         isRollbackInProgress, showDiscardConfirmation,
                         navigated, pendingOperations, db, remote, discard,
                         deleteCalls, nextRid, edits, dlg, addPage, upload>>
     ELSE /\ isSaving' = TRUE
          /\ save' = [SaveIdle EXCEPT
                        !.pc = "persist",
                        !.payload = PatientToSave(patient, pendingOperations),
                        !.buf = patient,
                        !.log = pendingOperations,
                        !.unsaved = hasUnsavedChanges]
          /\ UNCHANGED <<patient, originalPatient, hasUnsavedChanges,
                         isRollbackInProgress, showDiscardConfirmation,
                         navigated, pendingOperations, db, remote, discard,
                         deleteCalls, nextRid, edits, dlg, addPage, upload>>

\* updatePatient is fulfilled: the payload is persisted, the commit starts.
updatePatientFulfilled ==
  /\ save.pc = "persist"
  /\ db' = JsonCopy(save.payload)
  /\ save' = [save EXCEPT !.pc = "commit",
                          !.pending = pendingOperations,
                          !.sweep = CommitSweep(pendingOperations),
                          !.i = 1]
  /\ UNCHANGED <<patient, originalPatient, hasUnsavedChanges, isSaving,
                 isRollbackInProgress, showDiscardConfirmation, navigated,
                 pendingOperations, remote, discard, deleteCalls, nextRid,
                 edits, dlg, addPage, upload>>

\* Mutant: the commit runs although the update was rejected.
updatePatientRejectedCommitting(keepEditing) ==
  /\ save.pc = "persist"
  /\ save' = [save EXCEPT !.pc = "commit",
                          !.rejected = TRUE,
                          !.pending = pendingOperations,
                          !.sweep = CommitSweep(pendingOperations),
                          !.i = 1]
  /\ UNCHANGED <<patient, originalPatient, hasUnsavedChanges, isSaving,
                 isRollbackInProgress, showDiscardConfirmation, navigated,
                 pendingOperations, db, remote, discard, deleteCalls, nextRid,
                 edits, dlg, addPage, upload>>

\* updatePatient is rejected: the catch block asks whether to keep editing;
\* if not, handleDiscard runs with the hasUnsavedChanges of the click.
\* save.rejected is a ghost: the last save ended in the catch block.
updatePatientRejected(keepEditing) ==
  /\ save.pc = "persist"
  /\ IF keepEditing
     THEN UNCHANGED <<showDiscardConfirmation, navigated>>
     ELSE IF save.unsaved
          THEN showDiscardConfirmation' = TRUE /\ UNCHANGED navigated
          ELSE navigated' = TRUE /\ UNCHANGED showDiscardConfirmation
  /\ isSaving' = FALSE
  /\ save' = [SaveIdle EXCEPT !.rejected = TRUE]
  /\ UNCHANGED <<patient, originalPatient, hasUnsavedChanges,
                 isRollbackInProgress, pendingOperations, db, remote, discard,
                 deleteCalls, nextRid, edits, dlg, addPage, upload>>

\* One entry of the commit sweep: a remote delete per ref of a remove or
\* remove_record entry; failing are the refs whose delete fails.
commitStep(failing) ==
  /\ save.pc = "commit"
  /\ save.i <= Len(save.sweep)
  /\ LET op == save.sweep[save.i]
         refs == CommitRefs(op)
     IN /\ failing \subseteq refs
        /\ remote' = remote \ (refs \ failing)
        /\ deleteCalls' = deleteCalls \cup Calls(refs, "commit", save.sweep)
        /\ save' = [save EXCEPT !.i = NextEntry(@, failing),
                                !.deleted = @ \cup (refs \ failing),
                                !.failed = @ \cup failing,
                                !.attempts = @ + Cardinality(refs)]
  /\ UNCHANGED <<patient, originalPatient, hasUnsavedChanges, isSaving,
                 isRollbackInProgress, showDiscardConfirmation, navigated,
                 pendingOperations, db, discard, nextRid, edits, dlg, addPage, upload>>

\* Mutant: the commit itself takes the buffer as the new baseline.
commitReturnSnapshotting ==
  /\ save.pc = "commit"
  /\ save.i > Len(save.sweep)
  /\ pendingOperations' = <<>>
  /\ originalPatient' = JsonCopy(patient)
  /\ save' = [save EXCEPT !.pc = "committed"]
  /\ UNCHANGED <<patient, isSaving, isRollbackInProgress,
                 showDiscardConfirmation, navigated, db, remote, discard,
                 deleteCalls, nextRid, edits, dlg, addPage, upload>>
  /\ Rendered(hasUnsavedChanges)

\* The sweep is over: commitPendingOperations clears the log and returns its
\* summary (save.attempts, save.deleted, save.failed).
commitReturn ==
  /\ save.pc = "commit"
  /\ save.i > Len(save.sweep)
  /\ pendingOperations' = <<>>
  /\ save' = [save EXCEPT !.pc = "committed"]
  /\ UNCHANGED <<patient, originalPatient, isSaving, isRollbackInProgress,
                 showDiscardConfirmation, navigated, db, remote, discard,
                 deleteCalls, nextRid, edits, dlg, addPage, upload>>
  /\ Rendered(hasUnsavedChanges)

\* handleSave resumes after the commit: new baseline, navigation.
commitFinish ==
  /\ save.pc = "committed"
  /\ originalPatient' = JsonCopy(save.payload)
  /\ navigated' = TRUE
  /\ isSaving' = FALSE
  /\ save' = [save EXCEPT !.pc = "done"]
  /\ UNCHANGED <<patient, isRollbackInProgress, showDiscardConfirmation,
                 pendingOperations, db, remote, discard, deleteCalls, nextRid,
                 edits, dlg, addPage, upload>>
  /\ Rendered(FALSE)

\* ------------------------------------------------------------- discard flow
\* Cancel button.
handleDiscard ==
  /\ Editing
  /\ ~isSaving /\ ~isRollbackInProgress
  /\ IF hasUnsavedChanges
     THEN showDiscardConfirmation' = TRUE /\ UNCHANGED navigated
     ELSE navigated' = TRUE /\ UNCHANGED showDiscardConfirmation
  /\ UNCHANGED <<patient, originalPatient, hasUnsavedChanges, isSaving,
                 isRollbackInProgress, pendingOperations, db, remote, save,
                 discard, deleteCalls, nextRid, edits, dlg, addPage, upload>>

\* Keep Editing button of the confirmation.
cancelDiscard ==
  /\ Editing
  /\ showDiscardConfirmation /\ ~isRollbackInProgress
  /\ showDiscardConfirmation' = FALSE
  /\ UNCHANGED <<patient, originalPatient, hasUnsavedChanges, isSaving,
                 isRollbackInProgress, navigated, pendingOperations, db,
                 remote, save, discard, deleteCalls, nextRid, edits, dlg, addPage, upload>>

\* Discard Changes button: the rollback starts, newest entry first.
confirmDiscard ==
  /\ Editing
  /\ showDiscardConfirmation /\ ~isRollbackInProgress
  /\ isRollbackInProgress' = TRUE
  /\ discard' = [DiscardIdle EXCEPT !.pc = "rollback",
                                    !.original = originalPatient,
                                    !.pending = pendingOperations,
                                    !.sweep = Reverse(pendingOperations),
                                    !.i = 1]
  /\ UNCHANGED <<patient, originalPatient, hasUnsavedChanges, isSaving,
                 showDiscardConfirmation, navigated, pendingOperations, db,
                 remote, save, deleteCalls, nextRid, edits, dlg, addPage, upload>>

\* One entry of the rollback sweep: an add entry's object is deleted remotely
\* (best effort) and unlinked, a remove entry's link is restored.
rollbackStep(failing) ==
  /\ discard.pc = "rollback"
  /\ discard.i <= Len(discard.sweep)
  /\ LET op == discard.sweep[discard.i]
         refs == RollbackRefs(op)
     IN /\ failing \subseteq refs
        /\ remote' = remote \ (refs \ failing)
        /\ deleteCalls' = deleteCalls \cup Calls(refs, "rollback", discard.sweep)
        /\ patient' = UndoBuffer(patient, op)
        /\ discard' = [discard EXCEPT !.i = NextEntry(@, failing),
                                      !.deleted = @ \cup (refs \ failing),
                                      !.failed = @ \cup failing,
                                      !.attempts = @ + Cardinality(refs)]
  /\ UNCHANGED <<originalPatient, isSaving, isRollbackInProgress,
                 showDiscardConfirmation, navigated, pendingOperations, db,
                 save, nextRid, edits, dlg, addPage, upload>>
  /\ Rendered(hasUnsavedChanges)

\* Mutant: a rollback with a failed delete keeps the log.
rollbackReturnKeepingFailed ==
  /\ discard.pc = "rollback"
  /\ discard.i > Len(discard.sweep)
  /\ pendingOperations' = IF discard.failed # {} THEN pendingOperations ELSE <<>>
  /\ discard' = [discard EXCEPT !.pc = "rolledback"]
  /\ UNCHANGED <<patient, originalPatient, isSaving, isRollbackInProgress,
                 showDiscardConfirmation, navigated, db, remote, save,
                 deleteCalls, nextRid, edits, dlg, addPage, upload>>
  /\ Rendered(hasUnsavedChanges)

\* The sweep is over: rollbackPendingOperations clears the log and returns its
\* summary (discard.attempts, discard.deleted, discard.failed).
rollbackReturn ==
  /\ discard.pc = "rollback"
  /\ discard.i > Len(discard.sweep)
  /\ pendingOperations' = <<>>
  /\ discard' = [discard EXCEPT !.pc = "rolledback"]
  /\ UNCHANGED <<patient, originalPatient, isSaving, isRollbackInProgress,
                 showDiscardConfirmation, navigated, db, remote, save,
                 deleteCalls, nextRid, edits, dlg, addPage, upload>>
  /\ Rendered(hasUnsavedChanges)

\* confirmDiscard resumes after the rollback: buffer reset, navigation.
rollbackFinish ==
  /\ discard.pc = "rolledback"
  /\ patient' = DiscardReset(patient, discard.original)
  /\ showDiscardConfirmation' = FALSE
  /\ navigated' = TRUE
  /\ isRollbackInProgress' = FALSE
  /\ discard' = [discard EXCEPT !.pc = "done"]
  /\ UNCHANGED <<originalPatient, isSaving, pendingOperations, db, remote,
                 save, deleteCalls, nextRid, edits, dlg, addPage, upload>>
  /\ Rendered(IF discard.original # NULL THEN FALSE ELSE hasUnsavedChanges)

\* ------------------------------------------------------------ specification
\* The user's edits of the form.
Edit ==
  \/ \E value \in Names : handleChange(value)
  \/ \E t \in 1..MaxTs : handleAddRecord(t)
  \/ \E index \in 1..MaxRecords, note \in {"n0", "n1"}, t \in 1..MaxTs :
       handleUpdateRecord(index, note, t)
  \/ \E index \in 1..MaxRecords, newDate \in 1..MaxTs :
       handleUpdateRecordDate(index, newDate)
  \/ \E recordIndex \in 1..MaxRecords, url \in NewUrls :
       handleAddDocument(recordIndex, url)
  \/ \E recordIndex \in 1..MaxRecords, documentIndex \in 1..3 :
       handleRemoveDocument(recordIndex, documentIndex)
  \/ \E index \in 1..MaxRecords : handleRemoveRecord(index)
  \/ \E operationIndex \in 1..MaxLog : undo(operationIndex)

Next ==
  \/ LoadEffect
  \/ Edit
  \/ handleSave
  \/ updatePatientFulfilled
  \/ \E keepEditing \in BOOLEAN : updatePatientRejected(keepEditing)
  \/ \E failing \in SUBSET (remote \cup NewUrls \cup {"a", "b", "c"}) :
       commitStep(failing)
  \/ commitReturn
  \/ commitFinish
  \/ handleDiscard
  \/ cancelDiscard
  \/ confirmDiscard
  \/ \E failing \in SUBSET NewUrls : rollbackStep(failing)
  \/ rollbackReturn
  \/ rollbackFinish

Spec == Init /\ [][Next]_vars

\* ---------------------------------------------------------- add-patient page
AddOpen(clinicId) == [AddClosed EXCEPT !.open = TRUE, !.clinicId = clinicId]

ClinicIds == {"", "c1"}

\* handleSubmit's pre-flight validation: the alert it shows, "" when it passes.
SubmitValidation(clinicId, name) ==
  IF clinicId = "" THEN "Missing clinic ID"
  ELSE IF name = "" THEN "Name is required"
  ELSE ""

AddFrame ==
  UNCHANGED <<patient, originalPatient, hasUnsavedChanges, isSaving,
              isRollbackInProgress, showDiscardConfirmation, navigated,
              pendingOperations, db, remote, save, discard, deleteCalls,
              nextRid, edits, dlg, upload>>

\* The name input of the add form.
addHandleChange(value) ==
  /\ addPage.open /\ addPage.pc = "form"
  /\ value # addPage.name
  /\ addPage' = [addPage EXCEPT !.name = value]
  /\ AddFrame

\* Submit: validation, then addPatient is dispatched.
handleSubmit ==
  /\ addPage.open /\ addPage.pc = "form"
  /\ LET alert == SubmitValidation(addPage.clinicId, addPage.name)
     IN addPage' = IF alert # ""
                   THEN [addPage EXCEPT !.alert = alert]
                   ELSE [addPage EXCEPT !.pc = "adding", !.alert = ""]
  /\ AddFrame

\* addPatient is fulfilled: the page navigates to the dashboard.
addPatientFulfilled ==
  /\ addPage.pc = "adding"
  /\ addPage' = [addPage EXCEPT !.pc = "added"]
  /\ AddFrame

\* addPatient is rejected: the catch block alerts, the form stays.
addPatientRejected ==
  /\ addPage.pc = "adding"
  /\ addPage' = [addPage EXCEPT !.pc = "form",
                                !.alert = "Failed to add patient. Please try again."]
  /\ AddFrame

AddNext ==
  \/ \E value \in Names : addHandleChange(value)
  \/ handleSubmit
  \/ addPatientFulfilled
  \/ addPatientRejected

\* The router shows the edit page of a stored patient or the add page.
PagesInit ==
  /\ db \in StoredPatients
  /\ remote = HistoryRefs(db.history)
  /\ patient = InitialPatient
  /\ originalPatient = NULL
  /\ hasUnsavedChanges = FALSE
  /\ isSaving = FALSE
  /\ isRollbackInProgress = FALSE
  /\ showDiscardConfirmation = FALSE
  /\ navigated = FALSE
  /\ pendingOperations = <<>>
  /\ save = SaveIdle
  /\ discard = DiscardIdle
  /\ deleteCalls = {}
  /\ nextRid = 3
  /\ edits = 0
  /\ dlg = DlgIdle
  /\ addPage \in {AddClosed} \cup {AddOpen(c) : c \in ClinicIds}
  /\ upload = UploadIdle

PagesNext == Next \/ AddNext

SpecPages == PagesInit /\ [][PagesNext]_vars

\* The editing session with the store delivering the patient again at any
\* time.
NextReload ==
  \/ LoadEffect
  \/ Edit
  \/ ReloadEffect

SpecReload == Init /\ [][NextReload]_vars

\* ------------------------------------------------- cascading patient deletion
\* The dialog's document count: the sum of the records' document_urls lengths.
RECURSIVE SumDocs(_)
SumDocs(h) ==
  IF h = <<>> THEN 0
  ELSE SumDocs(SubSeq(h, 1, Len(h) - 1)) + Len(h[Len(h)].docs)

\* Mutant: the dialog counts records instead of documents.
totalDocumentsRecords(p) == Len(p.history)

totalDocuments(p) == SumDocs(p.history)

\* Every attachment of every history record, by position.
Attachments(p) ==
  UNION {{<<i, j>> : j \in DOMAIN p.history[i].docs} : i \in DOMAIN p.history}

\* Whether the coordinator goes on to delete the database record.
ProceedToDatabase(forceDelete, failureCount) == forceDelete \/ failureCount = 0

\* Mutants: the dialog's checkbox does not reach the request.
ConfirmArgumentAlways(forceDelete) == TRUE

ConfirmArgumentNever(forceDelete) == FALSE

\* The forceDelete the dialog hands to onConfirm.
ConfirmArgument(forceDelete) == forceDelete

\* Mutant: the catch block records nothing.
CaughtResultNone(error) == NoResult

\* What handleConfirm's catch block records.
CaughtResult(error) == [set |-> TRUE, success |-> FALSE, error |-> error]

DeleteInit ==
  /\ db \in StoredPatients
  /\ remote = HistoryRefs(db.history)
  /\ patient = InitialPatient
  /\ originalPatient = NULL
  /\ hasUnsavedChanges = FALSE
  /\ isSaving = FALSE
  /\ isRollbackInProgress = FALSE
  /\ showDiscardConfirmation = FALSE
  /\ navigated = FALSE
  /\ pendingOperations = <<>>
  /\ save = SaveIdle
  /\ discard = DiscardIdle
  /\ deleteCalls = {}
  /\ nextRid = 3
  /\ edits = 0
  /\ dlg = DlgIdle
  /\ addPage = AddClosed
  /\ upload = UploadIdle

\* Dashboard: the delete button of a listed patient opens the dialog.
handleDeletePatient ==
  /\ db # NULL
  /\ dlg.patient = NULL
  /\ dlg' = [DlgIdle EXCEPT !.isOpen = TRUE, !.patient = db,
                            !.outcome = dlg.outcome]
  /\ UNCHANGED <<db, remote, pageVars>>

DialogShown == dlg.patient # NULL /\ dlg.isOpen

\* Continue button of the initial step.
dialogContinue ==
  /\ DialogShown /\ dlg.step = "initial"
  /\ dlg' = [dlg EXCEPT !.step = "confirmation"]
  /\ UNCHANGED <<db, remote, pageVars>>

\* Back button of the confirmation step.
dialogBack ==
  /\ DialogShown /\ dlg.step = "confirmation"
  /\ dlg' = [dlg EXCEPT !.step = "initial"]
  /\ UNCHANGED <<db, remote, pageVars>>

\* The force delete checkbox of the confirmation step.
setForceDelete(checked) ==
  /\ DialogShown /\ dlg.step = "confirmation"
  /\ checked # dlg.forceDelete
  /\ dlg' = [dlg EXCEPT !.forceDelete = checked]
  /\ UNCHANGED <<db, remote, pageVars>>

\* Cancel button of the initial step: the dialog resets and the dashboard
\* closes it.
handleCancel ==
  /\ DialogShown /\ dlg.step = "initial"
  /\ dlg' = [DlgIdle EXCEPT !.outcome = dlg.outcome]
  /\ UNCHANGED <<db, remote, pageVars>>

\* Mutant: a call starts with the failure count of the call before it.
NewRequestKeepingCounts(prev) ==
  [NoRequest EXCEPT !.filesNotDeleted = prev.filesNotDeleted]

\* The coordinator's state at the start of a call: nothing of the call
\* before it (prev) is kept.
NewRequest(prev) == NoRequest

\* Mutant: the Delete Permanently button is also there while processing.
ConfirmShownWhileProcessing(step) == step \in {"confirmation", "processing"}

\* The steps in which the dialog renders the Delete Permanently button.
ConfirmShown(step) == step = "confirmation"

\* Delete Permanently button: handleConfirm calls onConfirm(forceDelete),
\* confirmDeletePatient dispatches deletePatient.
handleConfirm ==
  /\ DialogShown /\ ConfirmShown(dlg.step)
  /\ dlg' = [dlg EXCEPT
               !.step = "processing",
               !.inFlight = @ + 1,
               !.req = [NewRequest(dlg.req) EXCEPT
                          !.pc = "storage",
                          !.retry = dlg.outcome.set /\ ~dlg.outcome.success,
                          !.gone = IF db = NULL THEN {}
                                   ELSE HistoryRefs(db.history) \ remote,
                          !.checked = dlg.forceDelete,
                          !.patient = db,
                          !.forceDelete = ConfirmArgument(dlg.forceDelete),
                          !.todo = IF db = NULL THEN {} ELSE Attachments(db)]]
  /\ UNCHANGED <<db, remote, pageVars>>

\* Coordinator: one attachment's remote delete, in any order; a failure does
\* not stop the enumeration.
deleteAttachment(at, ok) ==
  /\ dlg.req.pc = "storage"
  /\ db # NULL
  /\ at \in dlg.req.todo
  /\ LET url == db.history[at[1]].docs[at[2]]
     IN /\ remote' = IF ok THEN remote \ {url} ELSE remote
        /\ deleteCalls' = deleteCalls \cup Calls({url}, "cascade", <<>>)
  /\ dlg' = [dlg EXCEPT
               !.req.todo = @ \ {at},
               !.req.filesDeleted = IF ok THEN @ + 1 ELSE @,
               !.req.filesNotDeleted = IF ok THEN @ ELSE @ + 1,
               !.req.okAt = IF ok THEN @ \cup {at} ELSE @,
               !.req.failAt = IF ok THEN @ ELSE @ \cup {at}]
  /\ UNCHANGED <<db, patient, originalPatient, hasUnsavedChanges, isSaving,
                 isRollbackInProgress, showDiscardConfirmation, navigated,
                 pendingOperations, save, discard, nextRid, edits, addPage, upload>>

\* Coordinator: the decision once every attachment was tried, and the
\* request settling in the dialog. A refusal rejects the request:
\* confirmDeletePatient rethrows and handleConfirm's catch records it.
\* Otherwise the dashboard closes the dialog.
decideDeletion ==
  /\ dlg.req.pc = "storage"
  /\ dlg.req.todo = {}
  /\ LET proceed == ProceedToDatabase(dlg.req.forceDelete, dlg.req.filesNotDeleted)
         outcome == [set |-> TRUE, filesDeleted |-> dlg.req.filesDeleted,
                     filesNotDeleted |-> dlg.req.filesNotDeleted,
                     success |-> proceed]
     IN IF proceed
        THEN /\ db' = NULL
             /\ dlg' = [DlgIdle EXCEPT !.outcome = outcome,
                                       !.req = [dlg.req EXCEPT !.pc = "settled"],
                                       !.inFlight = dlg.inFlight - 1]
        ELSE /\ db' = db
             /\ dlg' = [dlg EXCEPT !.step = "confirmation",
                                   !.deleteResult = CaughtResult("files"),
                                   !.outcome = outcome,
                                   !.req.pc = "settled",
                                   !.inFlight = @ - 1]
  /\ UNCHANGED <<remote, pageVars>>

\* The request fails before the coordinator decides (the server is not
\* reached, or answers with an error).
requestFails ==
  /\ dlg.req.pc = "storage"
  /\ dlg' = [dlg EXCEPT !.step = "confirmation",
                        !.deleteResult = CaughtResult("request"),
                        !.req.pc = "errored",
                        !.inFlight = @ - 1]
  /\ UNCHANGED <<db, remote, pageVars>>

DeleteNext ==
  \/ handleDeletePatient
  \/ dialogContinue
  \/ dialogBack
  \/ \E checked \in BOOLEAN : setForceDelete(checked)
  \/ handleCancel
  \/ handleConfirm
  \/ \E at \in dlg.req.todo, ok \in BOOLEAN : deleteAttachment(at, ok)
  \/ decideDeletion
  \/ requestFails

SpecDelete == DeleteInit /\ [][DeleteNext]_vars

\* ---------------------------------------------------------- upload endpoint
\* The request's file field, its clinicId field and its originalFilename field.
FileFields == {"none", "text", "file"}
ClinicIdFields == {"", "bad", "c1", "c9"}
FilenameFields == {"", "thai.pdf"}

\* isValidObjectId on the ids of the model; the clinics the database holds.
ValidObjectIds == {"c1", "c9"}
Clinics == {"c1"}

\* Mutant: the validation checks the file only.
UploadValidationFileOnly(file, clinicId) ==
  IF file = "none" THEN "No file provided" ELSE ""

\* POST's input validation: the error of its 400 response, "" when it passes.
UploadValidation(file, clinicId) ==
  IF file = "none" THEN "No file provided"
  ELSE IF clinicId = "" \/ clinicId \notin ValidObjectIds
       THEN "Valid clinic ID is required"
       ELSE ""

UploadFrame ==
  UNCHANGED <<patient, originalPatient, hasUnsavedChanges, isSaving,
              isRollbackInProgress, showDiscardConfirmation, navigated,
              pendingOperations, db, save, discard, deleteCalls, nextRid,
              edits, dlg, addPage>>

Respond(status) == [upload EXCEPT !.pc = "responded", !.status = status]

\* The outer catch block: status 500.
Caught == [Respond(500) EXCEPT !.thrown = TRUE]

Called(name) == Append(upload.calls, name)

\* A request arrives: the form data is parsed (or parsing throws, caught by
\* the outer catch) and validated.
POST(file, clinicId, originalFilename, parsed) ==
  /\ upload.pc = "idle"
  /\ upload' =
       IF ~parsed THEN Caught
       ELSE LET req == [upload EXCEPT !.file = file, !.clinicId = clinicId,
                                      !.originalFilename = originalFilename]
            IN IF UploadValidation(file, clinicId) # ""
               THEN [req EXCEPT !.pc = "responded", !.status = 400]
               ELSE [req EXCEPT !.pc = "connect"]
  /\ UNCHANGED remote
  /\ UploadFrame

\* await dbConnect().
dbConnectReturns(ok) ==
  /\ upload.pc = "connect"
  /\ upload' = IF ok THEN [upload EXCEPT !.pc = "find", !.calls = Called("dbConnect")]
               ELSE [Caught EXCEPT !.calls = Called("dbConnect")]
  /\ UNCHANGED remote
  /\ UploadFrame

\* await Clinic.findById(clinicId), then the 404 for an unknown clinic.
findByIdReturns(ok) ==
  /\ upload.pc = "find"
  /\ upload' =
       IF ~ok THEN [Caught EXCEPT !.calls = Called("findById")]
       ELSE IF upload.clinicId \notin Clinics
            THEN [Respond(404) EXCEPT !.calls = Called("findById")]
            ELSE [upload EXCEPT !.pc = "read", !.calls = Called("findById")]
  /\ UNCHANGED remote
  /\ UploadFrame

\* await file.arrayBuffer(): a field that is not a file has no such method.
arrayBufferReturns ==
  /\ upload.pc = "read"
  /\ upload' =
       IF upload.file # "file" THEN Caught
       ELSE [upload EXCEPT !.pc = "store",
                           !.filename = IF upload.originalFilename # ""
                                        THEN upload.originalFilename
                                        ELSE "file.name"]
  /\ UNCHANGED remote
  /\ UploadFrame

\* await uploadToCloudinary(...): the object is stored, or the uploader
\* reports a failure, or it throws.
uploadToCloudinaryReturns(outcome) ==
  /\ upload.pc = "store"
  /\ upload' =
       IF outcome = "stored"
       THEN [upload EXCEPT !.pc = "metadata",
                           !.calls = Called("uploadToCloudinary")]
       ELSE IF outcome = "failed"
            THEN [Respond(500) EXCEPT !.calls = Called("uploadToCloudinary")]
            ELSE [Caught EXCEPT !.calls = Called("uploadToCloudinary")]
  /\ remote' = IF outcome = "stored" THEN remote \cup NewUrls ELSE remote
  /\ UploadFrame

\* await FileMetadata.create(...), in its own try block: a failure is only
\* logged.
metadataReturns(ok) ==
  /\ upload.pc = "metadata"
  /\ upload' = [Respond(200) EXCEPT !.calls = Called("FileMetadata.create")]
  /\ UNCHANGED remote
  /\ UploadFrame

\* The next request.
nextRequest ==
  /\ upload.pc = "responded"
  /\ upload' = UploadIdle
  /\ UNCHANGED remote
  /\ UploadFrame

UploadNext ==
  \/ \E file \in FileFields, clinicId \in ClinicIdFields,
        originalFilename \in FilenameFields, parsed \in BOOLEAN :
       POST(file, clinicId, originalFilename, parsed)
  \/ \E ok \in BOOLEAN : dbConnectReturns(ok)
  \/ \E ok \in BOOLEAN : findByIdReturns(ok)
  \/ arrayBufferReturns
  \/ \E outcome \in {"stored", "failed", "thrown"} :
       uploadToCloudinaryReturns(outcome)
  \/ \E ok \in BOOLEAN : metadataReturns(ok)
  \/ nextRequest

SpecUpload == Init /\ [][UploadNext]_vars

\* ------------------------------------------------------------------ claims
CountRefs(log, Refs(_)) ==
  LET F[i \in 0..Len(log)] ==
        IF i = 0 THEN 0 ELSE F[i - 1] + Cardinality(Refs(log[i]))
  IN F[Len(log)]

AllRefs(log, Refs(_)) == UNION {Refs(log[i]) : i \in DOMAIN log}

Rids(h) == {h[i].rid : i \in DOMAIN h}

\* C1: once a discard has completed (no save having run beside it), the edit
\* buffer equals the baseline snapshot exactly, whatever remote deletes of the
\* rollback failed.
C1_RollbackRestoresSnapshot ==
  (discard.pc = "done" /\ save.pc = "idle") => patient = originalPatient

\* C1 witness: a discard completed after a two-entry log was rolled back with
\* its remote delete failing, and the buffer is the snapshot.
C1_Witness ==
  /\ discard.pc = "done" /\ save.pc = "idle"
  /\ Len(discard.pending) = 2
  /\ discard.failed # {} /\ discard.deleted = {}
  /\ patient = originalPatient

\* The buffer and the log were not touched between the Save click and the
\* end of the save.
SavedUndisturbed == patient = save.buf /\ save.pending = save.log

\* C2 (as claimed): after a save, every ref whose remote delete succeeded is
\* absent from the persisted patient and every ref whose remote delete failed
\* is still present in it.
C2_FailedDeleteKeepsRef ==
  (save.pc = "done" /\ SavedUndisturbed) =>
    /\ \A u \in save.deleted : u \notin HistoryRefs(db.history)
    /\ \A u \in save.failed : u \in HistoryRefs(db.history)

\* C3 (as claimed): after a save, the persisted history holds exactly the
\* records of the saved buffer that had no remove_record entry.
C3_OnlyMarkedRecordsRemoved ==
  (save.pc = "done" /\ SavedUndisturbed) =>
    Rids(db.history) = Rids(save.buf.history) \ MarkedRids(save.log)

C5_UnforcedFailureKeepsRecord ==
  (dlg.req.pc = "settled" /\ ~dlg.req.checked /\ dlg.req.failAt # {}) =>
    /\ db = dlg.req.patient
    /\ dlg.outcome.set /\ ~dlg.outcome.success
    /\ dlg.deleteResult.set /\ ~dlg.deleteResult.success

\* C5 witness: an unforced deletion settled with one delete failed and
\* another succeeded.
C5_Witness ==
  /\ dlg.req.pc = "settled" /\ ~dlg.req.checked
  /\ dlg.req.failAt # {} /\ dlg.req.okAt # {}
  /\ db # NULL

\* C6: a deletion confirmed with the force checkbox checked deletes the
\* database record whatever remote deletes failed and reports success true
\* with the counts of the successful and of the failed deletes.
C6_ForcedDeletesRecord ==
  (dlg.req.pc = "settled" /\ dlg.req.checked) =>
    /\ db = NULL
    /\ dlg.outcome.set /\ dlg.outcome.success
    /\ dlg.outcome.filesDeleted = Cardinality(dlg.req.okAt)
    /\ dlg.outcome.filesNotDeleted = Cardinality(dlg.req.failAt)

\* C6 witness: a forced deletion settled with every one of three remote
\* deletes failed.
C6_Witness ==
  /\ dlg.req.pc = "settled" /\ dlg.req.checked
  /\ Cardinality(dlg.req.failAt) = 3 /\ dlg.req.okAt = {}
  /\ db = NULL

\* C7: when the coordinator decides, a remote delete was attempted for every
\* attachment of every history record, and filesDeleted + filesNotDeleted is
\* the dialog's total document count, in whatever order the deletes completed.
C7_EveryAttachmentCounted ==
  dlg.req.pc = "settled" =>
    /\ dlg.req.okAt \cup dlg.req.failAt = Attachments(dlg.req.patient)
    /\ dlg.outcome.filesDeleted + dlg.outcome.filesNotDeleted
         = totalDocuments(dlg.req.patient)

\* C7 witness: a deletion settled after the first attachment's delete failed
\* and later ones succeeded.
C7_Witness ==
  /\ dlg.req.pc = "settled"
  /\ <<1, 1>> \in dlg.req.failAt
  /\ Cardinality(dlg.req.okAt) = 2

\* C8: a completed commit sweep attempted a remote delete for every ref of
\* every remove and remove_record entry of the log, a completed rollback
\* sweep for the ref of every add entry, and in both cases the page resumed
\* after the sweep, whatever deletes failed.
C8_SweepProcessesEveryEntry ==
  /\ save.pc = "done" =>
       /\ save.attempts = CountRefs(save.pending, CommitRefs)
       /\ save.deleted \cup save.failed = AllRefs(save.pending, CommitRefs)
       /\ navigated
  /\ discard.pc = "done" =>
       /\ discard.attempts = CountRefs(discard.pending, RollbackRefs)
       /\ discard.deleted \cup discard.failed = AllRefs(discard.pending, RollbackRefs)
       /\ navigated

\* C8 witness: a commit completed over a two-entry log whose first entry's
\* delete failed and whose second entry's delete succeeded.
C8_Witness ==
  /\ save.pc = "done"
  /\ Len(save.pending) = 2
  /\ CommitRefs(save.pending[1]) # {}
  /\ CommitRefs(save.pending[1]) \subseteq save.failed
  /\ save.deleted # {}

\* C9 (as claimed): after a save, the log is empty, the baseline equals the
\* buffer and hasUnsavedChanges is false.
C9_SaveLeavesNothingUnsaved ==
  (save.pc = "done" /\ SavedUndisturbed /\ discard.pc = "idle") =>
    /\ pendingOperations = <<>>
    /\ Stringify(patient) = Stringify(originalPatient)
    /\ ~hasUnsavedChanges

\* C10: once the patient has loaded, hasUnsavedChanges is true exactly when
\* the buffer differs from the baseline snapshot or the log is not empty.
C10_UnsavedIffDiffersOrPending ==
  originalPatient # NULL =>
    (hasUnsavedChanges <=>
       (Stringify(patient) # Stringify(originalPatient)
        \/ pendingOperations # <<>>))

\* C10 witness: the buffer equals the baseline, a record is marked for
\* deletion, and hasUnsavedChanges is true.
C10_Witness ==
  /\ originalPatient # NULL
  /\ Stringify(patient) = Stringify(originalPatient)
  /\ pendingOperations # <<>>
  /\ hasUnsavedChanges

C13_BufferRefsExistOrPending ==
  (/\ originalPatient # NULL
   /\ discard.pc = "idle"
   /\ save.pc = "idle" \/ (save.pc = "done" /\ SavedUndisturbed))
    => \A u \in HistoryRefs(patient.history) :
         \/ u \in remote
         \/ \E i \in DOMAIN pendingOperations : u \in Subjects(pendingOperations[i])

\* C14 (as claimed): every run of the load effect sets the buffer and the
\* baseline to the loaded patient and leaves the log empty.
C14_LoadClearsLog ==
  [][ (LoadEffect \/ ReloadEffect)
      => /\ patient' = LoadedPatient(db)
         /\ originalPatient' = JsonCopy(LoadedPatient(db))
         /\ pendingOperations' = <<>> ]_vars

\* A buffer that handleSave must refuse, and a form handleSubmit must refuse.
InvalidForSave(p) == p.id = "" \/ p.name = "" \/ p.hn = ""

InvalidForSubmit(a) == a.clinicId = "" \/ a.name = ""

C16_MarkKeepsRecordInBuffer ==
  [][ (/\ Len(pendingOperations') = Len(pendingOperations) + 1
       /\ pendingOperations'[Len(pendingOperations')].type = "remove_record")
      => LET e == pendingOperations'[Len(pendingOperations')]
         IN /\ SubSeq(pendingOperations', 1, Len(pendingOperations))
                 = pendingOperations
            /\ e.recordIndex \in DOMAIN patient.history
            /\ e.recordDocuments = patient.history[e.recordIndex].docs
            /\ isRecordMarkedForDeletion(pendingOperations', e.recordIndex)
            /\ patient' = patient
    ]_vars

\* C16 witness: the record holding a and b was marked as the first edit; the
\* entry lists a and b and the record is still in the buffer with both.
C16_Witness ==
  /\ edits = 1
  /\ Len(pendingOperations) = 1
  /\ pendingOperations[1].type = "remove_record"
  /\ pendingOperations[1].recordDocuments = <<"a", "b">>
  /\ isRecordMarkedForDeletion(pendingOperations, 1)
  /\ Len(patient.history) = 2
  /\ patient.history[1].docs = <<"a", "b">>

\* C17 (as claimed): while no save and no discard is running, a step that
\* leaves a record marked for deletion leaves that record's fields and
\* attachment list as they were.
C17_MarkedRecordNotEdited ==
  [][ (save.pc = "idle" /\ discard.pc = "idle")
      => \A r \in MarkedRids(pendingOperations) \cap MarkedRids(pendingOperations') :
           \A i \in DOMAIN patient.history, j \in DOMAIN patient'.history :
             (patient.history[i].rid = r /\ patient'.history[j].rid = r)
             => /\ patient'.history[j].note = patient.history[i].note
                /\ patient'.history[j].t = patient.history[i].t
                /\ patient'.history[j].docs = patient.history[i].docs
    ]_vars

\* The buffer and the log after the newest entry of log1 is undone on buffer p.
UndoLast(p, log1) ==
  [buffer |-> UndoBuffer(p, log1[Len(log1)]),
   log |-> RemoveAt(log1, Len(log1))]

AfterAttachUndo(ri, url) ==
  UndoLast(onAddDocument(patient, ri, url),
           RecordAttach(pendingOperations, ri, url, patient.history[ri].rid))

AfterDetachUndo(ri, di) ==
  UndoLast(onRemoveDocument(patient, ri, di),
           RecordDetach(pendingOperations, ri, patient.history[ri].docs[di],
                        patient.history[ri].rid))

AfterMarkUndo(ri) ==
  UndoLast(patient,
           RecordRecordDeletion(pendingOperations, ri, patient.history[ri].docs,
                                patient.history[ri].rid))

\* C19: a deletion confirmed again with the force checkbox unchecked, after
\* the call before it aborted on storage failures, in which every remote
\* delete succeeds (also the delete of a ref the earlier call had removed),
\* deletes the database record and reports success true; no failure of the
\* earlier call is counted.
C19_RetryWithoutFailuresDeletes ==
  (dlg.req.pc = "settled" /\ dlg.req.retry /\ ~dlg.req.checked
     /\ dlg.req.failAt = {}) =>
    /\ db = NULL
    /\ dlg.outcome.set /\ dlg.outcome.success
    /\ dlg.outcome.filesNotDeleted = 0
    /\ dlg.outcome.filesDeleted = totalDocuments(dlg.req.patient)

\* C19 witness: the retry of an aborted unforced deletion settled; each of the
\* patient's three refs was deleted without failure, one of them a ref the
\* aborted call had already removed from remote storage.
C19_Witness ==
  /\ dlg.req.pc = "settled" /\ dlg.req.retry /\ ~dlg.req.checked
  /\ dlg.req.failAt = {}
  /\ Cardinality(dlg.req.okAt) = 3
  /\ dlg.req.gone # {}
  /\ db = NULL

\* C20: while a save's updatePatient request is issued and not yet answered,
\* the commit has already attempted the remote delete of every ref of every
\* remove and remove_record entry of the log of the click.
C20_CommitBeforePersist ==
  save.pc = "persist" => save.attempts = CountRefs(save.log, CommitRefs)

\* The user is editing: no save and no discard is running.
QuietEditing == Editing /\ save.pc = "idle" /\ discard.pc = "idle"

C21_EntriesKeepTheirRecord ==
  QuietEditing =>
    \A i \in DOMAIN pendingOperations :
      LET op == pendingOperations[i]
      IN /\ op.recordIndex \in DOMAIN patient.history
         /\ patient.history[op.recordIndex].rid = op.rid

\* C22: once the patient is loaded, the buffer's history is ordered by
\* timestamp descending: no record precedes a record with a later timestamp.
C22_HistorySortedDescending ==
  Editing =>
    \A i, j \in DOMAIN patient.history :
      i < j => patient.history[i].t >= patient.history[j].t

C24_SweepsNeverOverlap ==
  ~(save.pc = "commit" /\ discard.pc = "rollback")

\* C25: when the rollback sweep returns, one remote delete has been issued
\* for the ref of each add entry of the log, every such ref is in the
\* summary as deleted or as failed, and the log is empty, whatever deletes
\* failed; when confirmDiscard then completes, none of these refs is linked
\* in the buffer.
C25_RollbackDeletesEachAttachOnce ==
  [][ /\ (discard.pc = "rollback" /\ discard'.pc = "rolledback")
         => /\ discard'.attempts = CountRefs(discard.pending, RollbackRefs)
            /\ discard'.deleted \cup discard'.failed =
                 AllRefs(discard.pending, RollbackRefs)
            /\ discard'.deleted \cap discard'.failed = {}
            /\ pendingOperations' = <<>>
      /\ (discard.pc = "rolledback" /\ discard'.pc = "done")
         => AllRefs(discard.pending, RollbackRefs)
              \cap HistoryRefs(patient'.history) = {}
    ]_vars

\* C25 witness: a discard completed whose rollback failed to delete the
\* uploaded file d: d is still in remote storage, the log is empty and d is
\* not linked in the buffer.
C25_Witness ==
  /\ discard.pc = "done"
  /\ discard.failed = {"d"} /\ discard.attempts = 1
  /\ "d" \in remote
  /\ pendingOperations = <<>>
  /\ "d" \notin HistoryRefs(patient.history)

\* C26: on every buffer of the session, onAddDocument with a record index
\* out of range, and onRemoveDocument with a record index or a document
\* index out of range, return the buffer with its history as it was.
C26_OutOfRangeLeavesHistory ==
  Editing =>
    \A ri \in 0..(MaxRecords + 1), di \in 0..4 :
      LET h == patient.history
      IN /\ ri \notin DOMAIN h =>
              /\ \A url \in NewUrls :
                   onAddDocument(patient, ri, url).history = h
              /\ onRemoveDocument(patient, ri, di).history = h
         /\ (ri \in DOMAIN h /\ di \notin DOMAIN h[ri].docs) =>
              onRemoveDocument(patient, ri, di).history = h

\* C26 witness: the file d was uploaded to a record, a later record was added
\* before it, and the add entry was undone: the undo asked onRemoveDocument
\* for a document the record at the entry's index does not hold, and d is
\* still linked.
C26_Witness ==
  /\ QuietEditing
  /\ edits = 3 /\ nextRid = 4
  /\ pendingOperations = <<>>
  /\ "d" \in HistoryRefs(patient.history)

\* C27: a save whose updatePatient request is rejected ends without the
\* commit: the step leaves the log, the baseline, the persisted patient and
\* remote storage as they were and hasUnsavedChanges at its value, and no
\* remote delete of a commit has been issued in the session.
C27_RejectedSaveSkipsCommit ==
  [][ (save.pc = "persist" /\ save'.pc # "persist")
        => \/ save'.pc = "commit" /\ ~save'.rejected /\ db' = JsonCopy(save.payload)
           \/ /\ save'.pc = "idle" /\ save'.rejected
              /\ UNCHANGED <<pendingOperations, originalPatient, patient, db,
                             remote, deleteCalls, hasUnsavedChanges>>
              /\ \A c \in deleteCalls' : c.by # "commit"
              /\ (patient = save.buf /\ pendingOperations = save.log)
                   => hasUnsavedChanges'
    ]_vars

\* C27 witness: a save with a pending detach was rejected and the user keeps
\* editing: the entry is still in the log, its file is still in remote
\* storage, the persisted patient still links it, and the form is unsaved.
C27_Witness ==
  /\ save.pc = "idle" /\ save.rejected
  /\ Editing /\ ~isSaving
  /\ Len(pendingOperations) = 1
  /\ pendingOperations[1].type = "remove"
  /\ pendingOperations[1].url \in remote
  /\ pendingOperations[1].url \in HistoryRefs(db.history)
  /\ hasUnsavedChanges
  /\ deleteCalls = {}

\* C28: at most one deletion request is in flight; a request is started
\* only from the confirmation step; and while the step is processing the
\* dialog changes only through its request: the request proceeds, or it
\* settles and the step leaves processing.
C28_OneDeletionInFlight ==
  [][ /\ dlg'.inFlight <= 1
      /\ (dlg'.inFlight > dlg.inFlight) => dlg.step = "confirmation"
      /\ (dlg.step = "processing" /\ dlg' # dlg)
         => /\ dlg.req.pc = "storage"
            /\ \/ /\ dlg'.req.pc = "storage" /\ dlg'.step = "processing"
                  /\ [dlg' EXCEPT !.req = dlg.req] = dlg
               \/ /\ dlg'.req.pc \in {"settled", "errored"}
                  /\ dlg'.step # "processing" /\ dlg'.inFlight = 0
    ]_vars

\* C28 witness: a second deletion request is in flight, started from the
\* confirmation step after the first one had settled with a refusal.
C28_Witness ==
  /\ dlg.step = "processing" /\ dlg.req.pc = "storage"
  /\ dlg.inFlight = 1
  /\ dlg.req.retry
  /\ dlg.req.todo # {} /\ dlg.req.okAt # {}

\* C29: when a deletion request fails (it is rejected before the decision,
\* or the coordinator refuses), the dialog goes from processing to
\* confirmation with the error recorded, stays open on the same patient and
\* keeps forceDelete, so that Delete Permanently can be clicked again; and
\* the step is processing exactly while a request is in flight.
C29_FailedDeletionReturnsToConfirmation ==
  [][ /\ (/\ dlg.req.pc = "storage"
          /\ \/ dlg'.req.pc = "errored"
             \/ dlg'.req.pc = "settled" /\ ~dlg'.outcome.success)
         => /\ dlg.step = "processing" /\ dlg'.step = "confirmation"
            /\ dlg'.deleteResult.set /\ ~dlg'.deleteResult.success
            /\ dlg'.deleteResult.error # ""
            /\ dlg'.isOpen /\ dlg'.patient = dlg.patient /\ dlg'.patient # NULL
            /\ dlg'.forceDelete = dlg.forceDelete
            /\ ConfirmShown(dlg'.step)
      /\ (dlg'.step = "processing") <=> (dlg'.req.pc = "storage")
    ]_vars

\* C29 witness: a forced deletion request was rejected: the dialog is back in
\* its confirmation step, open, with the error and the checkbox still
\* checked.
C29_Witness ==
  /\ dlg.req.pc = "errored" /\ dlg.req.checked
  /\ dlg.step = "confirmation" /\ dlg.isOpen /\ dlg.patient # NULL
  /\ dlg.forceDelete
  /\ dlg.deleteResult.set /\ dlg.deleteResult.error = "request"

\* C30: the uploader is called only for a request that carries a file and
\* the id of an existing clinic; a request without a file or with an invalid
\* clinic id is answered with 400 without any database or storage call; a
\* request naming an unknown clinic is answered, once the clinic was looked
\* up, with 404 without a storage call.
C30_UploadOnlyAfterValidation ==
  LET calls == Range(upload.calls)
      invalid == upload.file = "none" \/ upload.clinicId = ""
                   \/ upload.clinicId \notin ValidObjectIds
  IN /\ "uploadToCloudinary" \in calls =>
          /\ upload.file = "file"
          /\ upload.clinicId \in ValidObjectIds \cap Clinics
          /\ upload.calls[1] = "dbConnect" /\ upload.calls[2] = "findById"
     /\ upload.status = 200 => "uploadToCloudinary" \in calls
     /\ (upload.pc # "idle" /\ invalid) => upload.calls = <<>>
     /\ (upload.pc = "responded" /\ ~upload.thrown /\ invalid) =>
          upload.status = 400
     /\ (upload.pc # "idle" /\ ~invalid /\ upload.clinicId \notin Clinics) =>
          "uploadToCloudinary" \notin calls
     /\ (/\ upload.pc = "responded" /\ ~upload.thrown /\ ~invalid
         /\ upload.clinicId \notin Clinics) =>
          upload.status = 404 /\ upload.calls = <<"dbConnect", "findById">>

\* C30 witness: a request with a file and a well-formed id of no clinic was
\* answered with 404 after the two database calls.
C30_Witness ==
  /\ upload.pc = "responded" /\ upload.status = 404
  /\ upload.file = "file" /\ upload.clinicId = "c9"
  /\ upload.calls = <<"dbConnect", "findById">>

====
